---- MODULE Spec2Model ----
(***************************************************************************)
(* KACCP media worker: the job registry (app/jobs.py), alone and under     *)
(* threads, the process runner, the retrying fetcher, the prober and the   *)
(* segmenter (app/pipeline.py) and the pipeline orchestrator, whole and    *)
(* from its upload loop on (app/main.py), as state machines.               *)
(*                                                                         *)
(* Conventions.  A Python Optional is None (the empty tuple) or Some(x)    *)
(* (a one-element tuple).  Progress is counted in hundredths: 1.0 is       *)
(* ProgressOne.  A callee's frame records how the call ended: state is     *)
(* "returned" with a result, or "raised" with exc = Some(<str(e)>).        *)
(***************************************************************************)
EXTENDS Integers, Sequences, FiniteSets, TLC

VARIABLES
    jobs,       \* JobStore._jobs: a dict from job ids to Job records
    lastCall,   \* the registry operation called last, its arguments and its return
    settings,   \* app.config.settings, as far as the pipeline reads it
    files,      \* per job: the file names in the job's working directory
    fetch,      \* per job: the frame of download_youtube
    probe,      \* per job: the frame of _run_job's ffprobe_duration call
    seg,        \* per job: the frame of normalize_and_chunk
    task,       \* per job: the frame of _run_job
    lock,       \* JobStore._lock: None, or the thread that holds it
    threads,    \* per thread: the frame of the JobStore method it runs
    runner      \* the frame of one run_cmd_stream call, its child process and readers

vars == <<jobs, lastCall, settings, files, fetch, probe, seg, task, lock, threads, runner>>

-----------------------------------------------------------------------------
(* Bounds of the model *)

MaxRetries == 12        \* largest configured settings.yt_retries
MaxSilences == 2        \* most silence intervals detect_silences reports
MaxChunks == 17         \* most segments cut before the Segmenter's run is cut short
MaxLines == 2           \* most lines the child process writes to one stream
MaxSegments == 6        \* most segment files the upload loop is given

(* Program constants *)

ProgressOne == 100      \* 1.0, in hundredths
RetryCap == 10          \* min(10, settings.yt_retries)
BackoffFactor == 2      \* asyncio.sleep(2 * attempt)

None == <<>>
Some(x) == <<x>>
IsSome(o) == o # None
Get(o) == o[1]

\* Python truthiness of an Optional[str] / Optional[int]: None, "" and 0 are falsy.
TruthyStr(o) == IsSome(o) /\ Get(o) # ""
TruthyInt(o) == IsSome(o) /\ Get(o) # 0

Min(a, b) == IF a <= b THEN a ELSE b
Max(a, b) == IF a >= b THEN a ELSE b

\* Two job ids stand for the uuid4 key space.
JobIds == {"j1", "j2"}

-----------------------------------------------------------------------------
(* app/jobs.py: Job and JobStore.  Every operation runs under self._lock;  *)
(* it is an operator from the dict to the dict after the call.             *)

Job(job_id, source_id, chunk_seconds, webhook_url) ==
    [ job_id        |-> job_id,
      source_id     |-> source_id,
      status        |-> "queued",
      progress      |-> 0,
      message       |-> None,
      result        |-> None,
      chunk_seconds |-> chunk_seconds,
      webhook_url   |-> webhook_url ]

JobResult(chunks, total_duration_sec, chunk_seconds) ==
    [ chunks             |-> chunks,
      total_duration_sec |-> total_duration_sec,
      chunk_seconds      |-> chunk_seconds ]

JobStatusPayload(j) ==
    [ job_id    |-> j.job_id,
      source_id |-> j.source_id,
      status    |-> j.status,
      progress  |-> j.progress,
      message   |-> j.message,
      result    |-> j.result ]

\* dict.get(key): None for a missing key
dict_get(d, k) == IF k \in DOMAIN d THEN Some(d[k]) ELSE None

\* d[k] = v
dict_set(d, k, v) == [x \in DOMAIN d \cup {k} |-> IF x = k THEN v ELSE d[x]]

\* uuid4(): an id no job has
uuid4(d) == JobIds \ DOMAIN d

create(d, job_id, source_id, chunk_seconds, webhook_url) ==
    dict_set(d, job_id, Job(job_id, source_id, chunk_seconds, webhook_url))

set_running(d, job_id, msg) ==
    LET j == dict_get(d, job_id) IN
    IF IsSome(j)
    THEN [d EXCEPT ![job_id] =
            [@ EXCEPT !.status = "running",
                      !.message = IF TruthyStr(msg) THEN msg ELSE @]]
    ELSE d

\* Variant: the progress is stored as given.
update_progress_noclamp(d, job_id, progress, msg) ==
    LET j == dict_get(d, job_id) IN
    IF IsSome(j)
    THEN [d EXCEPT ![job_id] =
            [@ EXCEPT !.progress = progress,
                      !.message = IF TruthyStr(msg) THEN msg ELSE @]]
    ELSE d

update_progress(d, job_id, progress, msg) ==
    LET j == dict_get(d, job_id) IN
    IF IsSome(j)
    THEN [d EXCEPT ![job_id] =
            [@ EXCEPT !.progress = Max(0, Min(ProgressOne, progress)),
                      !.message = IF TruthyStr(msg) THEN msg ELSE @]]
    ELSE d

complete(d, job_id, chunks, total_duration_sec, chunk_seconds) ==
    LET j == dict_get(d, job_id) IN
    IF IsSome(j)
    THEN [d EXCEPT ![job_id] =
            [@ EXCEPT !.status = "completed",
                      !.progress = ProgressOne,
                      !.result = Some(JobResult(chunks, total_duration_sec, chunk_seconds))]]
    ELSE d

\* Variant: a failure reported for an unknown id makes a record for it.
fail_upsert(d, job_id, error) ==
    LET j == IF job_id \in DOMAIN d THEN d[job_id]
             ELSE Job(job_id, "unknown_source", None, None) IN
    dict_set(d, job_id, [j EXCEPT !.status = "failed", !.message = Some(error)])

\* Variant: a failure resets the progress.
fail_zeroing(d, job_id, error) ==
    LET j == dict_get(d, job_id) IN
    IF IsSome(j)
    THEN [d EXCEPT ![job_id] =
            [@ EXCEPT !.status = "failed",
                      !.progress = 0,
                      !.message = Some(error)]]
    ELSE d

\* Variant: a failed job is put back in the queue.
fail_requeue(d, job_id, error) ==
    LET j == dict_get(d, job_id) IN
    IF IsSome(j)
    THEN [d EXCEPT ![job_id] =
            [@ EXCEPT !.status = "queued",
                      !.message = Some(error)]]
    ELSE d

fail(d, job_id, error) ==
    LET j == dict_get(d, job_id) IN
    IF IsSome(j)
    THEN [d EXCEPT ![job_id] =
            [@ EXCEPT !.status = "failed",
                      !.message = Some(error)]]
    ELSE d

get_payload(d, job_id) ==
    LET j == dict_get(d, job_id) IN
    IF ~IsSome(j) THEN None ELSE Some(JobStatusPayload(Get(j)))

\* main.py get_job: the polling endpoint
get_job(d, job_id) ==
    LET payload == get_payload(d, job_id) IN
    IF ~IsSome(payload)
    THEN [status_code |-> 404, body |-> None]
    ELSE [status_code |-> 200, body |-> payload]

-----------------------------------------------------------------------------
(* The registry driven by arbitrary callers: any operation, any job id,    *)
(* any argument of the small input sets, in any order.                     *)

SourceIds == {"srcA"}
ChunkSecondsInputs == {Some(20)}
WebhookInputs == {None, Some("http://hook")}
MsgInputs == {None, Some("note")}
ErrorInputs == {"boom"}
ProgressInputs == {-30, 50, ProgressOne, 170}
ChunksInputs == {<<"gs://b/c0">>}
DurationInputs == {None, Some(42)}

Call(op, job_id, args, known, ret) ==
    [op |-> op, job_id |-> job_id, args |-> args, known |-> known, ret |-> ret]

NoCall == Call("none", "-", <<>>, FALSE, None)

RegCreate ==
    \E job_id \in uuid4(jobs), s \in SourceIds, cs \in ChunkSecondsInputs, w \in WebhookInputs :
        /\ jobs' = create(jobs, job_id, s, cs, w)
        /\ lastCall' = Call("create", job_id, <<s, cs, w>>, FALSE, Some(job_id))

RegSetRunning ==
    \E job_id \in JobIds, msg \in MsgInputs :
        /\ jobs' = set_running(jobs, job_id, msg)
        /\ lastCall' = Call("set_running", job_id, <<msg>>, job_id \in DOMAIN jobs, None)

RegUpdateProgress ==
    \E job_id \in JobIds, p \in ProgressInputs, msg \in MsgInputs :
        /\ jobs' = update_progress(jobs, job_id, p, msg)
        /\ lastCall' = Call("update_progress", job_id, <<p, msg>>, job_id \in DOMAIN jobs, None)

RegComplete ==
    \E job_id \in JobIds, c \in ChunksInputs, dur \in DurationInputs, cs \in ChunkSecondsInputs :
        /\ jobs' = complete(jobs, job_id, c, dur, cs)
        /\ lastCall' = Call("complete", job_id, <<c, dur, cs>>, job_id \in DOMAIN jobs, None)

RegFail ==
    \E job_id \in JobIds, e \in ErrorInputs :
        /\ jobs' = fail(jobs, job_id, e)
        /\ lastCall' = Call("fail", job_id, <<e>>, job_id \in DOMAIN jobs, None)

RegGet ==
    \E job_id \in JobIds :
        /\ jobs' = jobs
        /\ lastCall' = Call("get", job_id, <<>>, job_id \in DOMAIN jobs, get_job(jobs, job_id))

EmptyDict == [x \in {} |-> None]

-----------------------------------------------------------------------------
(* app/config.py: the settings the pipeline reads *)

DefaultSettings ==
    [ yt_retries          |-> 8,
      chunk_seconds       |-> 20,
      default_webhook_url |-> None,
      gcs_bucket          |-> "bucket" ]

-----------------------------------------------------------------------------
(* app/pipeline.py download_youtube: the Fetcher.                          *)
(* One run_cmd_stream invocation of yt-dlp ends in an exit code or in      *)
(* asyncio.TimeoutError, and may leave download.wav in the directory.      *)

WavFile == "download.wav"

ToolOutcomes ==
    { [kind |-> "exit",    code |-> 0,  wav |-> TRUE],
      [kind |-> "exit",    code |-> 0,  wav |-> FALSE],
      [kind |-> "exit",    code |-> 1,  wav |-> FALSE],
      [kind |-> "exit",    code |-> 1,  wav |-> TRUE],
      [kind |-> "timeout", code |-> -9, wav |-> FALSE] }

NoOutcome == [kind |-> "none", code |-> -1, wav |-> FALSE]

ErrNoWav == "yt-dlp reported success but output wav not found"
ErrExit == "yt-dlp exit!=0"
ErrTimeout == "yt-dlp timed out"

\* RuntimeError(f"download failed after {attempts} attempts: {last_err}")
DownloadError(last_err) ==
    IF last_err = Some(ErrNoWav) THEN "download failed: wav not found"
    ELSE IF last_err = Some(ErrExit) THEN "download failed: yt-dlp exit!=0"
    ELSE IF last_err = Some(ErrTimeout) THEN "download failed: yt-dlp timed out"
    ELSE "download failed: None"

IdleFetch ==
    [ state       |-> "idle",
      attempts    |-> 0,
      attempt     |-> 0,
      invocations |-> 0,
      last        |-> NoOutcome,
      last_err    |-> None,
      sleeps      |-> <<>>,
      result      |-> None,
      exc         |-> None ]

\* Variant: the cap without the floor of one attempt.
fetch_attempts_nofloor(yt_retries) == Min(RetryCap, yt_retries)

\* attempts = max(1, min(10, settings.yt_retries))
fetch_attempts(yt_retries) == Max(1, Min(RetryCap, yt_retries))

\* The call, up to the first await: range(1, attempts + 1) is entered at attempt 1,
\* or is empty and the RuntimeError is raised at once.
download_youtube(yt_retries) ==
    LET attempts == fetch_attempts(yt_retries) IN
    IF 1 <= attempts
    THEN [IdleFetch EXCEPT !.state = "running", !.attempts = attempts, !.attempt = 1]
    ELSE [IdleFetch EXCEPT !.state = "raised", !.attempts = attempts,
                           !.exc = Some(DownloadError(None))]

\* for p in out_dir.iterdir(): if p.is_file() and p.suffix.lower() == ".wav"
find_wav(dir) == IF WavFile \in dir THEN Some(WavFile) ELSE None

\* Variant: a zero exit code alone counts as success.
attempt_done_trusting_exit(f, o, dir) ==
    IF o.kind = "exit" /\ o.code = 0
    THEN [f EXCEPT !.state = "returned", !.invocations = @ + 1, !.last = o,
                   !.result = Some(WavFile)]
    ELSE [f EXCEPT !.state = "backoff", !.invocations = @ + 1, !.last = o,
                   !.last_err = Some(IF o.kind = "timeout" THEN ErrTimeout ELSE ErrExit)]

\* One attempt, from the return (or timeout) of run_cmd_stream to the next await:
\* the return of the file, or the start of the backoff sleep.
attempt_done(f, o, dir) ==
    LET g == [f EXCEPT !.invocations = @ + 1, !.last = o] IN
    IF o.kind = "timeout"
    THEN [g EXCEPT !.state = "backoff", !.last_err = Some(ErrTimeout)]
    ELSE IF o.code = 0
         THEN IF IsSome(find_wav(dir))
              THEN [g EXCEPT !.state = "returned", !.result = find_wav(dir)]
              ELSE [g EXCEPT !.state = "backoff", !.last_err = Some(ErrNoWav)]
         ELSE [g EXCEPT !.state = "backoff", !.last_err = Some(ErrExit)]

\* await asyncio.sleep(2 * attempt), then the next iteration or the raise after the loop
sleep_done(f) ==
    LET g == [f EXCEPT !.sleeps = Append(@, BackoffFactor * f.attempt)] IN
    IF f.attempt < f.attempts
    THEN [g EXCEPT !.state = "running", !.attempt = @ + 1]
    ELSE [g EXCEPT !.state = "raised", !.exc = Some(DownloadError(f.last_err))]

FetchAttempt(id) ==
    /\ fetch[id].state = "running"
    /\ \E o \in ToolOutcomes :
         LET dir == IF o.wav THEN files[id] \cup {WavFile} ELSE files[id] IN
         /\ files' = [files EXCEPT ![id] = dir]
         /\ fetch' = [fetch EXCEPT ![id] = attempt_done(fetch[id], o, dir)]

FetchSleep(id) ==
    /\ fetch[id].state = "backoff"
    /\ fetch' = [fetch EXCEPT ![id] = sleep_done(fetch[id])]
    /\ UNCHANGED files

-----------------------------------------------------------------------------
(* app/pipeline.py ffprobe_duration: the Prober.  Times are in tenths of a *)
(* second.  run_cmd_stream(cmd, timeout=60) returns (code, out, err) or    *)
(* raises asyncio.TimeoutError (pipeline.py lines 51-55).                  *)

ProbeOutcomes ==
    { [kind |-> "exit",    code |-> 0,  out |-> "42.0"],
      [kind |-> "exit",    code |-> 0,  out |-> "N/A"],
      [kind |-> "exit",    code |-> 1,  out |-> ""],
      [kind |-> "timeout", code |-> -9, out |-> ""] }

\* float(out.strip()): the value, or None for the ValueError
parse_float(out) ==
    IF out = "42.0" THEN Some(420)
    ELSE IF out = "50.0" THEN Some(500)
    ELSE IF out = "0.0" THEN Some(0)
    ELSE None

\* str(asyncio.TimeoutError())
TimeoutErrorText == ""

IdleProbe == [state |-> "idle", result |-> None, exc |-> None]

ffprobe_duration(o) ==
    IF o.kind = "timeout"
    THEN [state |-> "raised", result |-> None, exc |-> Some(TimeoutErrorText)]
    ELSE IF o.code = 0
         THEN [state |-> "returned", result |-> parse_float(o.out), exc |-> None]
         ELSE [state |-> "returned", result |-> None, exc |-> None]

-----------------------------------------------------------------------------
(* app/pipeline.py normalize_and_chunk: the Segmenter *)

NormFile == "normalized.wav"

\* Python values the orchestrator tells apart by attribute access
PyPath(name) == [type |-> "Path", name |-> name]
PyList(items) == [type |-> "list", items |-> items]

\* output_dir / f"chunk_{len(chunks):04d}.wav"
ChunkFile(n) == PyPath(<<"chunk", n>>)

Seconds(n) == n * 10

RunOutcomes ==
    { [kind |-> "exit",    code |-> 0],
      [kind |-> "exit",    code |-> 1],
      [kind |-> "timeout", code |-> -9] }

\* What detect_silences parses from ffmpeg's stderr: lists of (start, end)
SilenceInputs == { <<>>, << <<180, 186>> >> }

SegProbeOutcomes ==
    { [kind |-> "exit",    code |-> 0,  out |-> "42.0"],
      [kind |-> "exit",    code |-> 0,  out |-> "0.0"],
      [kind |-> "exit",    code |-> 1,  out |-> ""],
      [kind |-> "timeout", code |-> -9, out |-> ""] }

IdleSeg ==
    [ state            |-> "idle",
      max_len          |-> 0,
      min_len          |-> 0,
      silence_points   |-> <<>>,
      duration         |-> None,
      current_start    |-> 0,
      cut_point        |-> 0,
      chunks           |-> <<>>,
      actual_durations |-> <<>>,
      result           |-> None,
      exc              |-> None ]

\* The call, up to the await of the normalization command
normalize_and_chunk(chunk_seconds) == [IdleSeg EXCEPT !.state = "normalizing"]

\* silence_points = [s[0] for s in silences] + [s[1] for s in silences]
silence_points(silences) ==
    [i \in 1..Len(silences) |-> silences[i][1]] \o [i \in 1..Len(silences) |-> silences[i][2]]

\* Variant: the silence points are ignored; every cut is the fixed-length one.
next_cut_fixed(points, current_start, min_len, max_len, duration) ==
    Min(current_start + max_len, duration)

\* Variant: the fixed-length cut is not limited to the duration.
next_cut_noclamp(points, current_start, min_len, max_len, duration) ==
    LET target_end == current_start + min_len
        ok(i) == target_end <= points[i] /\ points[i] <= current_start + max_len
        hits == {i \in 1..Len(points) : ok(i)} IN
    IF hits # {}
    THEN points[CHOOSE i \in hits : \A j \in hits : i <= j]
    ELSE current_start + max_len

\* for sp in silence_points: if target_end <= sp <= current_start + max_len: break
\* and, with no such point, min(current_start + max_len, duration)
next_cut(points, current_start, min_len, max_len, duration) ==
    LET target_end == current_start + min_len
        ok(i) == target_end <= points[i] /\ points[i] <= current_start + max_len
        hits == {i \in 1..Len(points) : ok(i)} IN
    IF hits # {}
    THEN points[CHOOSE i \in hits : \A j \in hits : i <= j]
    ELSE Min(current_start + max_len, duration)

seg_raise(g, text) == [g EXCEPT !.state = "raised", !.exc = Some(text)]

\* while current_start < duration: the next cut is chosen and ffmpeg is awaited,
\* or the loop ends and (chunks, actual_durations) is returned
seg_loop(g) ==
    IF g.current_start < Get(g.duration)
    THEN LET cut == next_cut(g.silence_points, g.current_start, g.min_len, g.max_len,
                             Get(g.duration)) IN
         [g EXCEPT !.state = "cutting", !.cut_point = cut,
                   !.actual_durations = Append(@, cut - g.current_start)]
    ELSE [g EXCEPT !.state = "returned",
                   !.result = Some(<<PyList(g.chunks), PyList(g.actual_durations)>>)]

\* Step 1: ffmpeg loudnorm returns
seg_normalized(g, o) ==
    IF o.kind = "timeout" THEN seg_raise(g, TimeoutErrorText)
    ELSE IF o.code # 0 THEN seg_raise(g, "ffmpeg normalization failed")
    ELSE [g EXCEPT !.state = "detecting"]

\* Variant: the band below the target length is ten seconds wide.
seg_detected_wide(g, o, silences, chunk_seconds) ==
    IF o.kind = "timeout" THEN seg_raise(g, TimeoutErrorText)
    ELSE IF o.code # 0 THEN seg_raise(g, "Silence detection failed")
    ELSE [g EXCEPT !.state = "probing",
                   !.max_len = Seconds(chunk_seconds),
                   !.min_len = Seconds(chunk_seconds - 10),
                   !.silence_points = silence_points(silences)]

\* Step 2: detect_silences returns; then max_len, min_len, silence_points
seg_detected(g, o, silences, chunk_seconds) ==
    IF o.kind = "timeout" THEN seg_raise(g, TimeoutErrorText)
    ELSE IF o.code # 0 THEN seg_raise(g, "Silence detection failed")
    ELSE [g EXCEPT !.state = "probing",
                   !.max_len = Seconds(chunk_seconds),
                   !.min_len = Seconds(chunk_seconds - 5),
                   !.silence_points = silence_points(silences)]

\* duration = await ffprobe_duration(...); if duration is None: raise
seg_probed(g, o) ==
    LET r == ffprobe_duration(o) IN
    IF r.state = "raised" THEN seg_raise(g, Get(r.exc))
    ELSE IF r.result = None THEN seg_raise(g, "Could not probe audio duration")
    ELSE seg_loop([g EXCEPT !.duration = r.result])

\* Variant: the next segment starts one second before the cut.
seg_cut_overlap(g, o) ==
    IF o.kind = "timeout" THEN seg_raise(g, TimeoutErrorText)
    ELSE IF o.code # 0 THEN seg_raise(g, "ffmpeg chunking failed")
    ELSE seg_loop([g EXCEPT !.chunks = Append(@, ChunkFile(Len(g.chunks))),
                            !.current_start = g.cut_point - Seconds(1)])

\* the ffmpeg cut returns
seg_cut(g, o) ==
    IF o.kind = "timeout" THEN seg_raise(g, TimeoutErrorText)
    ELSE IF o.code # 0 THEN seg_raise(g, "ffmpeg chunking failed")
    ELSE seg_loop([g EXCEPT !.chunks = Append(@, ChunkFile(Len(g.chunks))),
                            !.current_start = g.cut_point])

-----------------------------------------------------------------------------
(* app/main.py: the frame of _run_job *)

IdleTask ==
    [ pc            |-> "idle",
      downloaded    |-> None,
      total_dur     |-> None,
      chunk_seconds |-> 0,
      chunks_local  |-> <<>>,
      idx           |-> 0,
      uploaded_uris |-> <<>>,
      failure       |-> None,
      error         |-> None,
      unlocked_reads |-> {},
      hooks         |-> <<>>,
      escaped       |-> None ]

(* app/jobs.py: the frame of a thread inside a JobStore method *)

ThreadIds == {"w", "r"}

IdleThread ==
    [ pc     |-> "idle",
      op     |-> "none",
      job_id |-> "-",
      args   |-> <<>>,
      k      |-> 0,
      before |-> <<>>,
      snap   |-> <<>>,
      blocked |-> FALSE,
      ret    |-> None ]

IdleThreads == [th \in ThreadIds |-> IdleThread]

(* app/pipeline.py: the frame of run_cmd_stream *)

IdleRunner ==
    [ pc          |-> "idle",
      timeout     |-> None,
      proc        |-> "none",
      returncode  |-> None,
      reader_out  |-> "none",
      reader_err  |-> "none",
      out_lines   |-> 0,
      err_lines   |-> 0,
      timed_out   |-> FALSE,
      kill_called |-> FALSE,
      result      |-> None,
      exc         |-> None ]

(* The Fetcher alone, called once under every configured retry count. *)

RetryInputs == -1..MaxRetries

InitFetch ==
    /\ jobs = EmptyDict
    /\ lastCall = NoCall
    /\ settings \in {[DefaultSettings EXCEPT !.yt_retries = n] : n \in RetryInputs}
    /\ files = [i \in JobIds |-> {}]
    /\ fetch = [i \in JobIds |-> IF i = "j1" THEN download_youtube(settings.yt_retries)
                                             ELSE IdleFetch]
    /\ probe = [i \in JobIds |-> IdleProbe]
    /\ seg = [i \in JobIds |-> IdleSeg]
    /\ task = [i \in JobIds |-> IdleTask]
    /\ lock = None
    /\ threads = IdleThreads
    /\ runner = IdleRunner

NextFetch ==
    /\ \E id \in JobIds : FetchAttempt(id) \/ FetchSleep(id)
    /\ UNCHANGED <<jobs, lastCall, settings, probe, seg, task, lock, threads, runner>>

SpecFetch == InitFetch /\ [][NextFetch]_vars

-----------------------------------------------------------------------------
(* The registry alone, under arbitrary callers *)

InitRegistry ==
    /\ jobs = EmptyDict
    /\ lastCall = NoCall
    /\ settings = DefaultSettings
    /\ files = [i \in JobIds |-> {}]
    /\ fetch = [i \in JobIds |-> IdleFetch]
    /\ probe = [i \in JobIds |-> IdleProbe]
    /\ seg = [i \in JobIds |-> IdleSeg]
    /\ task = [i \in JobIds |-> IdleTask]
    /\ lock = None
    /\ threads = IdleThreads
    /\ runner = IdleRunner

NextRegistry ==
    /\ \/ RegCreate
       \/ RegSetRunning
       \/ RegUpdateProgress
       \/ RegComplete
       \/ RegFail
       \/ RegGet
    /\ UNCHANGED <<settings, files, fetch, probe, seg, task, lock, threads, runner>>

SpecRegistry == InitRegistry /\ [][NextRegistry]_vars

-----------------------------------------------------------------------------
(* app/jobs.py under threads: one thread runs a registry write, another    *)
(* runs get_payload.  Inside "with self._lock" every statement is a step   *)
(* of its own: an attribute assignment of the write, an attribute read of  *)
(* the JobStatusPayload(...) call.                                         *)

\* The attribute assignments of a write, in the order of the code
write_script(op, args) ==
    IF op = "set_running"
    THEN << <<"status", "running">> >>
         \o (IF TruthyStr(args[1]) THEN << <<"message", args[1]>> >> ELSE <<>>)
    ELSE IF op = "update_progress"
    THEN << <<"progress", Max(0, Min(ProgressOne, args[1]))>> >>
         \o (IF TruthyStr(args[2]) THEN << <<"message", args[2]>> >> ELSE <<>>)
    ELSE IF op = "complete"
    THEN << <<"status", "completed">>,
            <<"progress", ProgressOne>>,
            <<"result", Some(JobResult(args[1], args[2], args[3]))>> >>
    ELSE << <<"status", "failed">>, <<"message", Some(args[1])>> >>

\* The same write as one call of the JobStore method
apply_write(d, op, job_id, args) ==
    IF op = "set_running" THEN set_running(d, job_id, args[1])
    ELSE IF op = "update_progress" THEN update_progress(d, job_id, args[1], args[2])
    ELSE IF op = "complete" THEN complete(d, job_id, args[1], args[2], args[3])
    ELSE fail(d, job_id, args[1])

\* The attributes get_payload reads, in the order of the JobStatusPayload(...) arguments
PayloadFields == <<"job_id", "source_id", "status", "progress", "message", "result">>

\* Variant: the lock is granted whoever holds it.
can_acquire_always(l, th) == TRUE

\* threading.Lock: acquired only while no thread holds it
can_acquire(l, th) == l = None

WriteCalls ==
    {<<"set_running", <<msg>>>> : msg \in MsgInputs}
    \cup {<<"update_progress", <<pm[1], pm[2]>>>> : pm \in ProgressInputs \X MsgInputs}
    \cup {<<"complete", <<c, dur, Some(20)>>>> : c \in ChunksInputs, dur \in DurationInputs}
    \cup {<<"fail", <<e>>>> : e \in ErrorInputs}

\* a thread calls a write method and reaches "with self._lock" (blocked notes whether
\* another thread holds the lock at that moment)
ThreadCallWrite ==
    /\ threads["w"].pc = "idle"
    /\ \E c \in WriteCalls, job_id \in JobIds :
         threads' = [threads EXCEPT !["w"] =
                        [@ EXCEPT !.pc = "acquire", !.op = c[1], !.args = c[2], !.job_id = job_id,
                                  !.blocked = lock # None]]
    /\ UNCHANGED <<jobs, lock>>

\* a thread calls get_payload and reaches "with self._lock"
ThreadCallGet ==
    /\ threads["r"].pc = "idle"
    /\ \E job_id \in JobIds :
         threads' = [threads EXCEPT !["r"] =
                        [@ EXCEPT !.pc = "acquire", !.op = "get_payload", !.job_id = job_id,
                                  !.blocked = lock # None]]
    /\ UNCHANGED <<jobs, lock>>

\* with self._lock: __enter__
LockAcquire(th) ==
    /\ threads[th].pc = "acquire"
    /\ can_acquire(lock, th)
    /\ lock' = Some(th)
    /\ threads' = [threads EXCEPT ![th].pc = "lookup"]
    /\ UNCHANGED jobs

\* j = self._jobs.get(job_id) and the test of j
LockedLookup(th) ==
    /\ threads[th].pc = "lookup"
    /\ LET j == dict_get(jobs, threads[th].job_id) IN
         threads' = [threads EXCEPT ![th] =
                        IF ~IsSome(j) THEN [@ EXCEPT !.pc = "release"]
                        ELSE [@ EXCEPT !.pc = "body", !.k = 1, !.before = jobs]]
    /\ UNCHANGED <<jobs, lock>>

\* one attribute assignment of the write
LockedWrite ==
    LET t == threads["w"]
        script == write_script(t.op, t.args) IN
    /\ t.pc = "body"
    /\ jobs' = [jobs EXCEPT ![t.job_id][script[t.k][1]] = script[t.k][2]]
    /\ threads' = [threads EXCEPT !["w"] =
                      IF t.k < Len(script) THEN [@ EXCEPT !.k = @ + 1]
                      ELSE [@ EXCEPT !.pc = "release"]]
    /\ UNCHANGED lock

\* one attribute read of get_payload; after the last, the payload is built
LockedRead ==
    LET t == threads["r"]
        f == PayloadFields[t.k]
        snap == Append(t.snap, jobs[t.job_id][f]) IN
    /\ t.pc = "body"
    /\ threads' = [threads EXCEPT !["r"] =
                      IF t.k < Len(PayloadFields)
                      THEN [@ EXCEPT !.k = @ + 1, !.snap = snap]
                      ELSE [@ EXCEPT !.pc = "release", !.snap = snap,
                                     !.ret = Some([ job_id    |-> snap[1],
                                                    source_id |-> snap[2],
                                                    status    |-> snap[3],
                                                    progress  |-> snap[4],
                                                    message   |-> snap[5],
                                                    result    |-> snap[6] ])]]
    /\ UNCHANGED <<jobs, lock>>

\* with self._lock: __exit__, and the method returns
LockRelease(th) ==
    /\ threads[th].pc = "release"
    /\ lock' = None
    /\ threads' = [threads EXCEPT ![th].pc = "returned"]
    /\ UNCHANGED jobs

\* The records a job has when a write and a read meet: as created, running, failed
ThreadInitJobs ==
    LET d0 == create(EmptyDict, "j1", "srcA", Some(20), None)
        d1 == update_progress(set_running(d0, "j1", Some("note")), "j1", 15, None)
        d2 == fail(update_progress(d1, "j1", 50, None), "j1", "boom") IN
    {d0, d1, d2}

InitThreads ==
    /\ jobs \in ThreadInitJobs
    /\ lastCall = NoCall
    /\ settings = DefaultSettings
    /\ files = [i \in JobIds |-> {}]
    /\ fetch = [i \in JobIds |-> IdleFetch]
    /\ probe = [i \in JobIds |-> IdleProbe]
    /\ seg = [i \in JobIds |-> IdleSeg]
    /\ task = [i \in JobIds |-> IdleTask]
    /\ lock = None
    /\ threads = IdleThreads
    /\ runner = IdleRunner

NextThreads ==
    /\ \/ ThreadCallWrite
       \/ ThreadCallGet
       \/ \E th \in ThreadIds : LockAcquire(th)
       \/ \E th \in ThreadIds : LockedLookup(th)
       \/ LockedWrite
       \/ LockedRead
       \/ \E th \in ThreadIds : LockRelease(th)
    /\ UNCHANGED <<lastCall, settings, files, fetch, probe, seg, task, runner>>

SpecThreads == InitThreads /\ [][NextThreads]_vars

-----------------------------------------------------------------------------
(* The Segmenter alone, called once under every target length, every list  *)
(* of detected silences and every probed duration of the small input sets. *)

\* chunk_seconds: below the request's floor of 5 (settings only), at it, the default, above
SegChunkSeconds == {3, 5, 20, 60}

\* Silence boundaries, in tenths of a second
SilenceTimes == {0, 20, 140, 160, 170, 180, 186, 380, 420, 500}

SilenceIntervals == {iv \in SilenceTimes \X SilenceTimes : iv[1] < iv[2]}

\* What detect_silences returns: ffmpeg reports the intervals in time order
SilenceLists ==
    UNION { { l \in [1..n -> SilenceIntervals] : \A i \in 1..(n - 1) : l[i][2] < l[i + 1][1] }
            : n \in 0..MaxSilences }

SegDurationOutcomes ==
    { [kind |-> "exit",    code |-> 0,  out |-> "42.0"],
      [kind |-> "exit",    code |-> 0,  out |-> "50.0"],
      [kind |-> "exit",    code |-> 0,  out |-> "0.0"],
      [kind |-> "exit",    code |-> 0,  out |-> "N/A"],
      [kind |-> "exit",    code |-> 1,  out |-> ""],
      [kind |-> "timeout", code |-> -9, out |-> ""] }

SegNormalize(id) ==
    /\ seg[id].state = "normalizing"
    /\ \E o \in RunOutcomes :
         /\ seg' = [seg EXCEPT ![id] = seg_normalized(seg[id], o)]
         /\ files' = IF o.kind = "exit" /\ o.code = 0
                     THEN [files EXCEPT ![id] = @ \cup {NormFile}] ELSE files

SegDetect(id) ==
    /\ seg[id].state = "detecting"
    /\ \E o \in RunOutcomes, silences \in SilenceLists :
         seg' = [seg EXCEPT ![id] = seg_detected(seg[id], o, silences, task[id].chunk_seconds)]
    /\ UNCHANGED files

SegProbe(id) ==
    /\ seg[id].state = "probing"
    /\ \E o \in SegDurationOutcomes : seg' = [seg EXCEPT ![id] = seg_probed(seg[id], o)]
    /\ UNCHANGED files

SegCut(id) ==
    /\ seg[id].state = "cutting"
    /\ Len(seg[id].chunks) < MaxChunks
    /\ \E o \in RunOutcomes : seg' = [seg EXCEPT ![id] = seg_cut(seg[id], o)]
    /\ UNCHANGED files

InitSeg ==
    /\ jobs = EmptyDict
    /\ lastCall = NoCall
    /\ settings = DefaultSettings
    /\ files = [i \in JobIds |-> {}]
    /\ fetch = [i \in JobIds |-> IdleFetch]
    /\ probe = [i \in JobIds |-> IdleProbe]
    /\ \E T \in SegChunkSeconds :
         /\ task = [i \in JobIds |-> IF i = "j1" THEN [IdleTask EXCEPT !.chunk_seconds = T]
                                                 ELSE IdleTask]
         /\ seg = [i \in JobIds |-> IF i = "j1" THEN normalize_and_chunk(T) ELSE IdleSeg]
    /\ lock = None
    /\ threads = IdleThreads
    /\ runner = IdleRunner

NextSeg ==
    /\ \E id \in JobIds :
         \/ SegNormalize(id)
         \/ SegDetect(id)
         \/ SegProbe(id)
         \/ SegCut(id)
    /\ UNCHANGED <<jobs, lastCall, settings, fetch, probe, task, lock, threads, runner>>

SpecSeg == InitSeg /\ [][NextSeg]_vars

-----------------------------------------------------------------------------
(* app/pipeline.py run_cmd_stream: the Process Runner, with the child      *)
(* process and the two reader tasks.  A reader is "reading" until its      *)
(* stream reaches end of file ("done") or readline raises ("failed").      *)

\* timeout: None, 0 (both mean no timeout) or a number of seconds
TimeoutInputs == {None, Some(0), Some(60)}

ExitCodes == {0, 1}

\* if timeout and timeout > 0
has_timeout(r) == TruthyInt(r.timeout) /\ Get(r.timeout) > 0

\* The call, up to the await of create_subprocess_exec
run_cmd_stream(timeout) == [IdleRunner EXCEPT !.pc = "spawning", !.timeout = timeout]

\* after the finally block: return (proc.returncode, out, err), or the re-raised
\* asyncio.TimeoutError
finish(r) ==
    IF r.timed_out
    THEN [r EXCEPT !.pc = "raised", !.exc = Some(TimeoutErrorText)]
    ELSE [r EXCEPT !.pc = "returned",
                   !.result = Some(<<Get(r.returncode), r.out_lines, r.err_lines>>)]

\* Variant: the readers are not awaited.
finally_clause_nowait(r) == finish(r)

\* finally: await reader_out; await reader_err (an await of a finished task does
\* not suspend; an exception of the reader is suppressed)
finally_clause(r) ==
    IF r.reader_out = "reading" THEN [r EXCEPT !.pc = "await_out"]
    ELSE IF r.reader_err = "reading" THEN [r EXCEPT !.pc = "await_err"]
    ELSE finish(r)

\* create_subprocess_exec returns or raises; the reader tasks are created and
\* proc.wait() is awaited
RunnerSpawn ==
    /\ runner.pc = "spawning"
    /\ \E spawned \in BOOLEAN :
         runner' = IF spawned
                   THEN [runner EXCEPT !.pc = "waiting", !.proc = "running",
                                       !.reader_out = "reading", !.reader_err = "reading"]
                   ELSE [runner EXCEPT !.pc = "raised", !.exc = Some("OSError")]

\* _read_stream: one line is read and appended
ReaderLine ==
    \/ /\ runner.reader_out = "reading"
       /\ runner.out_lines < MaxLines
       /\ runner' = [runner EXCEPT !.out_lines = @ + 1]
    \/ /\ runner.reader_err = "reading"
       /\ runner.err_lines < MaxLines
       /\ runner' = [runner EXCEPT !.err_lines = @ + 1]

\* _read_stream ends: readline returns b"" at end of file, or raises
ReaderEnd ==
    \E how \in {"done", "failed"} :
        \/ /\ runner.reader_out = "reading"
           /\ runner' = [runner EXCEPT !.reader_out = how]
        \/ /\ runner.reader_err = "reading"
           /\ runner' = [runner EXCEPT !.reader_err = how]

\* the child process exits by itself
ChildExit ==
    /\ runner.proc = "running"
    /\ \E code \in ExitCodes :
         runner' = [runner EXCEPT !.proc = "exited", !.returncode = Some(code)]

\* proc.wait() returns: the finally block
RunnerWaitDone ==
    /\ runner.pc = "waiting"
    /\ runner.proc = "exited"
    /\ runner' = finally_clause(runner)

\* asyncio.wait_for raises TimeoutError: proc.kill(), raise, the finally block
RunnerTimeout ==
    /\ runner.pc = "waiting"
    /\ has_timeout(runner)
    /\ runner' = finally_clause([runner EXCEPT !.timed_out = TRUE, !.kill_called = TRUE,
                                               !.proc = IF @ = "running" THEN "killed" ELSE @])

\* the awaited reader has finished: the rest of the finally block
RunnerDrain ==
    /\ \/ runner.pc = "await_out" /\ runner.reader_out # "reading"
       \/ runner.pc = "await_err" /\ runner.reader_err # "reading"
    /\ runner' = finally_clause(runner)

InitRunner ==
    /\ jobs = EmptyDict
    /\ lastCall = NoCall
    /\ settings = DefaultSettings
    /\ files = [i \in JobIds |-> {}]
    /\ fetch = [i \in JobIds |-> IdleFetch]
    /\ probe = [i \in JobIds |-> IdleProbe]
    /\ seg = [i \in JobIds |-> IdleSeg]
    /\ task = [i \in JobIds |-> IdleTask]
    /\ lock = None
    /\ threads = IdleThreads
    /\ \E timeout \in TimeoutInputs : runner = run_cmd_stream(timeout)

NextRunner ==
    /\ \/ RunnerSpawn
       \/ ReaderLine
       \/ ReaderEnd
       \/ ChildExit
       \/ RunnerWaitDone
       \/ RunnerTimeout
       \/ RunnerDrain
    /\ UNCHANGED <<jobs, lastCall, settings, files, fetch, probe, seg, task, lock, threads>>

SpecRunner == InitRunner /\ [][NextRunner]_vars

-----------------------------------------------------------------------------
(* app/main.py: ingest_youtube, _run_job and _maybe_webhook.               *)
(* _run_job is a coroutine on a single-threaded event loop: one action is  *)
(* the code from the completion of one awaited call to the next await.     *)
(* upload_file blocks, so the upload loop has no await; it is modelled one *)
(* iteration per action to expose every progress write.                    *)

AttributeErrorText == "'list' object has no attribute 'name'"

\* f"gs://{settings.gcs_bucket}/{object_name}", object_name = f"audio_chunks/{src_id}/{p.name}"
GcsUri(bucket, src_id, name) == <<"gs", bucket, "audio_chunks", src_id, name>>

\* job_store._jobs.get(job_id) written outside JobStore: the dict is read without
\* self._lock; the frame notes the variable the record was read into
unlocked_get(t, into) == [t EXCEPT !.unlocked_reads = @ \cup {into}]

\* _maybe_webhook, up to the await of client.post, or to its early return, after
\* which _run_job's finally block cleans up and the task ends
maybe_webhook(d, t0, job_id, success) ==
    LET job == dict_get(d, job_id)
        t == unlocked_get(t0, "job") IN
    IF ~IsSome(job) \/ ~TruthyStr(Get(job).webhook_url)
    THEN [t EXCEPT !.pc = "done"]
    ELSE [t EXCEPT !.pc = "webhook",
                   !.hooks = Append(@, [success |-> success,
                                        status  |-> IF success THEN "completed" ELSE "failed",
                                        posted  |-> "pending"])]

\* Variant: the failure is recorded and the run ends without a notification.
except_clause_silent(d, t, job_id, origin, text) ==
    [jobs |-> fail(d, job_id, text),
     t    |-> [t EXCEPT !.failure = Some(origin), !.error = Some(text), !.pc = "done"]]

\* except Exception as e: job_store.fail(job_id, str(e)); await _maybe_webhook(success=False)
\* (t.failure notes where the exception came from, t.error is str(e))
except_clause(d, t, job_id, origin, text) ==
    LET d2 == fail(d, job_id, text) IN
    [jobs |-> d2,
     t    |-> maybe_webhook(d2, [t EXCEPT !.failure = Some(origin), !.error = Some(text)],
                            job_id, FALSE)]

\* job_store.complete(...); chunks_meta; await _maybe_webhook(success=True)
complete_clause(d, t, job_id) ==
    LET d2 == complete(d, job_id, t.uploaded_uris, t.total_dur, Some(t.chunk_seconds)) IN
    [jobs |-> d2, t |-> maybe_webhook(d2, t, job_id, TRUE)]

\* after download_youtube returns or raises
after_fetch(d, t, job_id, f) ==
    IF f.state = "returned"
    THEN [jobs |-> update_progress(d, job_id, 10, Some("download complete")),
          t    |-> [t EXCEPT !.pc = "probing", !.downloaded = f.result]]
    ELSE IF f.state = "raised"
    THEN except_clause(d, t, job_id, "fetch", Get(f.exc))
    ELSE [jobs |-> d, t |-> t]

\* after ffprobe_duration returns or raises: chunk_seconds from the job record or
\* the settings, progress 0.15, and the call of normalize_and_chunk
after_probe(d, t, job_id, r, cfg) ==
    IF r.state = "raised"
    THEN except_clause(d, t, job_id, "probe", Get(r.exc))
    ELSE LET js == dict_get(d, job_id)
             chunk_seconds == IF IsSome(js) /\ TruthyInt(Get(js).chunk_seconds)
                              THEN Get(Get(js).chunk_seconds)
                              ELSE cfg.chunk_seconds IN
         [jobs |-> update_progress(d, job_id, 15, Some("normalizing audio")),
          t    |-> [unlocked_get(t, "js") EXCEPT !.pc = "segmenting", !.total_dur = r.result,
                                                 !.chunk_seconds = chunk_seconds]]

\* after a step of normalize_and_chunk: it raised, it returned (progress 0.50 and
\* the upload loop is entered over what it returned), or it awaits its next command
after_seg(d, t, job_id, g) ==
    IF g.state = "raised"
    THEN except_clause(d, t, job_id, "segment", Get(g.exc))
    ELSE IF g.state = "returned"
    THEN LET d2 == update_progress(d, job_id, 50, Some("chunking complete; uploading"))
             t2 == [t EXCEPT !.chunks_local = Get(g.result)] IN
         IF Len(t2.chunks_local) = 0
         THEN complete_clause(d2, t2, job_id)
         ELSE [jobs |-> d2, t |-> [t2 EXCEPT !.pc = "uploading", !.idx = 1]]
    ELSE [jobs |-> d, t |-> t]

\* one iteration of: for idx, p in enumerate(chunks_local, start=1)
upload_iteration(d, t0, job_id, upload_ok, cfg) ==
    LET t == unlocked_get(t0, "js2")
        total == Len(t.chunks_local)
        p == t.chunks_local[t.idx]
        js2 == dict_get(d, job_id)
        src_id == IF IsSome(js2) THEN Get(js2).source_id ELSE "unknown_source" IN
    IF p.type # "Path"
    THEN except_clause(d, t, job_id, "orchestrator", AttributeErrorText)
    ELSE IF ~upload_ok
    THEN except_clause(d, t, job_id, "upload", "upload failed")
    ELSE LET t2 == [t EXCEPT !.uploaded_uris = Append(@, GcsUri(cfg.gcs_bucket, src_id, p.name))]
             prog == 10 + (89 * t.idx) \div Max(1, total)
             d2 == update_progress(d, job_id, prog, Some("uploaded idx/total")) IN
         IF t.idx < total
         THEN [jobs |-> d2, t |-> [t2 EXCEPT !.idx = @ + 1]]
         ELSE complete_clause(d2, t2, job_id)

\* Variant: an exception of client.post leaves _maybe_webhook and is recorded as the
\* run's failure.
webhook_done_propagating(d, t, job_id, posted) ==
    LET t2 == [t EXCEPT !.pc = "done", !.hooks[Len(t.hooks)].posted = posted] IN
    IF posted = "raised"
    THEN [jobs |-> fail(d, job_id, "webhook error"), t |-> [t2 EXCEPT !.escaped = Some("webhook")]]
    ELSE [jobs |-> d, t |-> t2]

\* client.post returns or raises; except Exception: pass; _maybe_webhook returns
webhook_done(d, t, job_id, posted) ==
    [jobs |-> d, t |-> [t EXCEPT !.pc = "done", !.hooks[Len(t.hooks)].posted = posted]]

\* the finally block: best-effort removal of the working directory's files
cleanup(fs, job_id, t) == IF t.pc = "done" THEN [fs EXCEPT ![job_id] = {}] ELSE fs

\* a callee's frame lives until the callee returns or raises
live_frame(f, idle) == IF f.state \in {"returned", "raised"} THEN idle ELSE f

Apply(job_id, r, fs) ==
    /\ jobs' = r.jobs
    /\ task' = [task EXCEPT ![job_id] = r.t]
    /\ files' = cleanup(fs, job_id, r.t)

PayloadChunkSeconds == {None, Some(20)}

\* POST /ingest/youtube
Ingest ==
    /\ settings.gcs_bucket # ""
    /\ \E job_id \in uuid4(jobs), s \in SourceIds, cs \in PayloadChunkSeconds, w \in WebhookInputs :
         LET chunk_seconds == IF TruthyInt(cs) THEN Get(cs) ELSE settings.chunk_seconds
             webhook_url == IF TruthyStr(w) THEN w ELSE settings.default_webhook_url IN
         /\ jobs' = create(jobs, job_id, s, Some(chunk_seconds), webhook_url)
         /\ task' = [task EXCEPT ![job_id] = [IdleTask EXCEPT !.pc = "scheduled"]]
    /\ UNCHANGED <<lastCall, settings, files, fetch, probe, seg>>

\* _run_job from its start to the await of download_youtube's first command
RunStart(id) ==
    /\ task[id].pc = "scheduled"
    /\ \E root_ok \in BOOLEAN, dir_ok \in BOOLEAN :
         IF ~root_ok
         THEN /\ task' = [task EXCEPT ![id] = [@ EXCEPT !.pc = "done", !.escaped = Some("OSError"),
                                                         !.failure = Some("workdir")]]
              /\ UNCHANGED <<jobs, files, fetch>>
         ELSE IF ~dir_ok
         THEN /\ Apply(id, except_clause(jobs, task[id], id, "workdir", "OSError"), files)
              /\ UNCHANGED fetch
         ELSE LET d == set_running(jobs, id, Some("downloading from YouTube"))
                  f == download_youtube(settings.yt_retries) IN
              /\ fetch' = [fetch EXCEPT ![id] = live_frame(f, IdleFetch)]
              /\ Apply(id, after_fetch(d, [task[id] EXCEPT !.pc = "fetching"], id, f), files)
    /\ UNCHANGED <<lastCall, settings, probe, seg>>

\* yt-dlp ends: the attempt's bookkeeping and, when the file is returned,
\* progress 0.10 and the start of ffprobe
RunFetchAttempt(id) ==
    /\ task[id].pc = "fetching"
    /\ fetch[id].state = "running"
    /\ \E o \in ToolOutcomes :
         LET dir == IF o.wav THEN files[id] \cup {WavFile} ELSE files[id]
             f == attempt_done(fetch[id], o, dir) IN
         /\ fetch' = [fetch EXCEPT ![id] = live_frame(f, IdleFetch)]
         /\ Apply(id, after_fetch(jobs, task[id], id, f), [files EXCEPT ![id] = dir])
    /\ UNCHANGED <<lastCall, settings, probe, seg>>

\* the backoff sleep ends: the next attempt starts, or the loop is over and the
\* RuntimeError reaches _run_job's except clause
RunFetchSleep(id) ==
    /\ task[id].pc = "fetching"
    /\ fetch[id].state = "backoff"
    /\ LET f == sleep_done(fetch[id]) IN
         /\ fetch' = [fetch EXCEPT ![id] = live_frame(f, IdleFetch)]
         /\ Apply(id, after_fetch(jobs, task[id], id, f), files)
    /\ UNCHANGED <<lastCall, settings, probe, seg>>

RunProbe(id) ==
    /\ task[id].pc = "probing"
    /\ \E o \in ProbeOutcomes :
         LET r == ffprobe_duration(o)
             a == after_probe(jobs, task[id], id, r, settings) IN
         /\ probe' = [probe EXCEPT ![id] = r]
         /\ seg' = [seg EXCEPT ![id] = IF a.t.pc = "segmenting"
                                       THEN normalize_and_chunk(a.t.chunk_seconds) ELSE @]
         /\ Apply(id, a, files)
    /\ UNCHANGED <<lastCall, settings, fetch>>

SegStep(id, g, fs) ==
    /\ seg' = [seg EXCEPT ![id] = live_frame(g, IdleSeg)]
    /\ Apply(id, after_seg(jobs, task[id], id, g), fs)
    /\ UNCHANGED <<lastCall, settings, fetch, probe>>

RunSegNormalize(id) ==
    /\ task[id].pc = "segmenting"
    /\ seg[id].state = "normalizing"
    /\ \E o \in RunOutcomes :
         SegStep(id, seg_normalized(seg[id], o),
                 IF o.kind = "exit" /\ o.code = 0
                 THEN [files EXCEPT ![id] = @ \cup {NormFile}] ELSE files)

RunSegDetect(id) ==
    /\ task[id].pc = "segmenting"
    /\ seg[id].state = "detecting"
    /\ \E o \in RunOutcomes, silences \in SilenceInputs :
         SegStep(id, seg_detected(seg[id], o, silences, task[id].chunk_seconds), files)

RunSegProbe(id) ==
    /\ task[id].pc = "segmenting"
    /\ seg[id].state = "probing"
    /\ \E o \in SegProbeOutcomes : SegStep(id, seg_probed(seg[id], o), files)

RunSegCut(id) ==
    /\ task[id].pc = "segmenting"
    /\ seg[id].state = "cutting"
    /\ \E o \in RunOutcomes : SegStep(id, seg_cut(seg[id], o), files)

RunUpload(id) ==
    /\ task[id].pc = "uploading"
    /\ \E upload_ok \in BOOLEAN :
         Apply(id, upload_iteration(jobs, task[id], id, upload_ok, settings), files)
    /\ UNCHANGED <<lastCall, settings, fetch, probe, seg>>

\* client.post returns or raises; the exception is swallowed; then the finally block
RunWebhookDone(id) ==
    /\ task[id].pc = "webhook"
    /\ \E posted \in {"delivered", "raised"} :
         Apply(id, webhook_done(jobs, task[id], id, posted), files)
    /\ UNCHANGED <<lastCall, settings, fetch, probe, seg>>

Init ==
    /\ jobs = EmptyDict
    /\ lastCall = NoCall
    /\ settings = [DefaultSettings EXCEPT !.yt_retries = 2]
    /\ files = [i \in JobIds |-> {}]
    /\ fetch = [i \in JobIds |-> IdleFetch]
    /\ probe = [i \in JobIds |-> IdleProbe]
    /\ seg = [i \in JobIds |-> IdleSeg]
    /\ task = [i \in JobIds |-> IdleTask]
    /\ lock = None
    /\ threads = IdleThreads
    /\ runner = IdleRunner

Next ==
    /\ \/ Ingest
       \/ \E id \in JobIds :
            \/ RunStart(id)
            \/ RunFetchAttempt(id)
            \/ RunFetchSleep(id)
            \/ RunProbe(id)
            \/ RunSegNormalize(id)
            \/ RunSegDetect(id)
            \/ RunSegProbe(id)
            \/ RunSegCut(id)
            \/ RunUpload(id)
            \/ RunWebhookDone(id)
    /\ UNCHANGED <<lock, threads, runner>>

Spec == Init /\ [][Next]_vars

-----------------------------------------------------------------------------
(* The upload loop of _run_job (main.py lines 82-113) alone, entered with  *)
(* a list of n segment paths: the job is running, progress 0.50 has just   *)
(* been written.                                                           *)

SegmentPaths(n) == [i \in 1..n |-> ChunkFile(i - 1)]

\* The registry when the loop is entered: the writes of lines 67, 72, 79 and 82
JobsAtUpload(webhook_url) ==
    LET d0 == create(EmptyDict, "j1", "srcA", Some(20), webhook_url)
        d1 == set_running(d0, "j1", Some("downloading from YouTube"))
        d2 == update_progress(d1, "j1", 10, Some("download complete"))
        d3 == update_progress(d2, "j1", 15, Some("normalizing audio")) IN
    update_progress(d3, "j1", 50, Some("chunking complete; uploading"))

InitUpload ==
    /\ \E w \in WebhookInputs : jobs = JobsAtUpload(w)
    /\ lastCall = NoCall
    /\ settings = DefaultSettings
    /\ files = [i \in JobIds |-> {}]
    /\ fetch = [i \in JobIds |-> IdleFetch]
    /\ probe = [i \in JobIds |-> IdleProbe]
    /\ seg = [i \in JobIds |-> IdleSeg]
    /\ \E n \in 1..MaxSegments, dur \in DurationInputs :
         task = [i \in JobIds |->
                    IF i = "j1"
                    THEN [IdleTask EXCEPT !.pc = "uploading", !.idx = 1, !.chunk_seconds = 20,
                                          !.downloaded = Some(WavFile), !.total_dur = dur,
                                          !.chunks_local = SegmentPaths(n)]
                    ELSE IdleTask]
    /\ lock = None
    /\ threads = IdleThreads
    /\ runner = IdleRunner

NextUpload ==
    /\ \E id \in JobIds :
         \/ RunUpload(id)
         \/ RunWebhookDone(id)
    /\ UNCHANGED <<lock, threads, runner>>

SpecUpload == InitUpload /\ [][NextUpload]_vars

-----------------------------------------------------------------------------
(* Properties of the registry, under SpecRegistry *)

Terminal == {"completed", "failed"}
WriteOps == {"set_running", "update_progress", "complete", "fail"}

\* C2: once a job's status is completed or failed, no later registry operation
\* changes that status.
C2_TerminalStatusNeverChanges ==
    [][\A id \in DOMAIN jobs :
          jobs[id].status \in Terminal
              => id \in DOMAIN jobs' /\ jobs'[id].status = jobs[id].status]_vars

\* C3: in every reachable job record, result is present iff status = completed.
C3_ResultIffCompleted ==
    \A id \in DOMAIN jobs : IsSome(jobs[id].result) <=> jobs[id].status = "completed"

\* C4: in every reachable job record, progress = 1.0 iff status = completed.
C4_FullProgressIffCompleted ==
    \A id \in DOMAIN jobs : jobs[id].progress = ProgressOne <=> jobs[id].status = "completed"

\* C5: update_progress stores max(0, min(1, p)): 0 for an input below 0, 1.0 for an
\* input above 1, the input itself in between; so every stored progress is in [0, 1].
C5_ProgressClamped ==
    /\ \A id \in DOMAIN jobs : 0 <= jobs[id].progress /\ jobs[id].progress <= ProgressOne
    /\ (lastCall.op = "update_progress" /\ lastCall.known) =>
          LET p == lastCall.args[1]
              stored == jobs[lastCall.job_id].progress IN
          /\ p < 0 => stored = 0
          /\ p > ProgressOne => stored = ProgressOne
          /\ (0 <= p /\ p <= ProgressOne) => stored = p

C5_Witness ==
    /\ lastCall.op = "update_progress"
    /\ lastCall.known
    /\ lastCall.args[1] > ProgressOne
    /\ jobs[lastCall.job_id].progress = ProgressOne
    /\ jobs[lastCall.job_id].status = "running"

\* C6: a registry write addressed to a job id that was never created leaves the
\* whole registry unchanged, and get on such an id answers not-found.
C6_UnknownIdIsNoOp ==
    [][(lastCall'.op \in WriteOps \cup {"get"} /\ ~lastCall'.known) =>
          /\ jobs' = jobs
          /\ lastCall'.job_id \notin DOMAIN jobs'
          /\ lastCall'.op = "get" =>
                lastCall'.ret = [status_code |-> 404, body |-> None]]_vars

C6_Witness ==
    /\ lastCall.op = "fail"
    /\ ~lastCall.known
    /\ lastCall.job_id \notin DOMAIN jobs
    /\ DOMAIN jobs # {}

-----------------------------------------------------------------------------
(* Properties of the Fetcher, under SpecFetch *)

TheFetch == fetch["j1"]

ExpectedAttempts ==
    IF settings.yt_retries < 1 THEN 1
    ELSE IF settings.yt_retries > 10 THEN 10
    ELSE settings.yt_retries

\* C7: with configured retry count n and a tool that fails on every attempt the
\* Fetcher makes exactly max(1, min(10, n)) attempts and then raises a download
\* error; it never makes more attempts than that, nor ends with fewer than one.
C7_AttemptCount ==
    /\ TheFetch.invocations <= ExpectedAttempts
    /\ TheFetch.state \in {"returned", "raised"} => TheFetch.invocations >= 1
    /\ TheFetch.state = "raised" =>
          /\ TheFetch.invocations = ExpectedAttempts
          /\ TheFetch.exc = Some(DownloadError(TheFetch.last_err))
          /\ IsSome(TheFetch.last_err)

C7_Witness ==
    /\ TheFetch.state = "raised"
    /\ settings.yt_retries > RetryCap
    /\ TheFetch.invocations = RetryCap

\* C8: when all k attempts fail the Fetcher sleeps exactly k-1 times, 2*i seconds
\* after failed attempt i for i = 1..k-1, and raises without a further sleep.
C8_SleepsOnlyBetweenAttempts ==
    TheFetch.state = "raised" =>
        TheFetch.sleeps = [i \in 1..(TheFetch.invocations - 1) |-> 2 * i]

\* C9: the Fetcher returns a file only from an attempt that exited with status 0
\* and after which a .wav file is in the working directory; an attempt that exits 0
\* without such a file counts as failed and is followed by the next attempt; the
\* first successful attempt ends the loop with no further invocation.
C9_ReturnOnlyOnSuccess ==
    [][\A id \in JobIds :
        LET f == fetch[id]
            g == fetch'[id] IN
        /\ g.invocations # f.invocations =>
              /\ g.invocations = f.invocations + 1
              /\ g.state = "returned" <=>
                    (g.last.kind = "exit" /\ g.last.code = 0 /\ WavFile \in files'[id])
              /\ g.state = "returned" => IsSome(g.result) /\ Get(g.result) \in files'[id]
              /\ g.state # "returned" => g.state = "backoff" /\ IsSome(g.last_err)
        /\ (f.state = "backoff" /\ f.attempt < f.attempts) =>
              (g # f => g.state = "running" /\ g.attempt = f.attempt + 1)
        /\ f.state = "returned" => g = f]_vars

C9_Witness ==
    /\ TheFetch.state = "returned"
    /\ TheFetch.last_err = Some(ErrNoWav)
    /\ TheFetch.invocations = 2

-----------------------------------------------------------------------------
(* Properties of the orchestrator, under Spec *)

StageFailures == {Some("workdir"), Some("fetch"), Some("probe"), Some("segment"), Some("upload")}

\* C1: when the fetch, the duration probe, the segmentation and every upload
\* succeed, a run of _run_job ends with the job completed, progress 1.0 and a result
\* listing exactly one storage address per segment file, in segment order.
C1_SuccessfulRunCompletes ==
    \A id \in JobIds :
        (/\ task[id].pc = "done"
         /\ task[id].escaped = None
         /\ task[id].failure \notin StageFailures
         /\ IsSome(task[id].total_dur)
         /\ Len(task[id].chunks_local[1].items) >= 1) =>
            LET segments == task[id].chunks_local[1].items
                j == jobs[id] IN
            /\ j.status = "completed"
            /\ j.progress = ProgressOne
            /\ IsSome(j.result)
            /\ Get(j.result).chunks =
                  [i \in 1..Len(segments) |->
                      GcsUri(settings.gcs_bucket, j.source_id, segments[i].name)]

\* C10: the Prober never raises; whatever the probe process does (non-zero exit,
\* unparsable output, the 60-second timeout) it returns None, so a failed probe
\* never sends the run into its except clause.
C10_ProberNeverRaises ==
    \A id \in JobIds :
        /\ probe[id].state # "raised"
        /\ task[id].failure # Some("probe")

-----------------------------------------------------------------------------
(* Properties of the Segmenter, under SpecSeg *)

TheSeg == seg["j1"]

\* The silence boundaries lying in [current_start + T-5, current_start + T]
Candidates(g) ==
    { g.silence_points[i] : i \in { k \in 1..Len(g.silence_points) :
          /\ g.current_start + (g.max_len - Seconds(5)) <= g.silence_points[k]
          /\ g.silence_points[k] <= g.current_start + g.max_len } }

\* C11: in every iteration of the greedy selection, if some candidate cut point p
\* has current_start + (T-5) <= p <= current_start + T then the cut is such a
\* candidate; min(current_start + T, total_duration) is used only when there is none.
C11_CutIsCandidateInWindow ==
    \A id \in JobIds :
        seg[id].state = "cutting" =>
            IF Candidates(seg[id]) # {}
            THEN seg[id].cut_point \in Candidates(seg[id])
            ELSE seg[id].cut_point =
                     Min(seg[id].current_start + seg[id].max_len, Get(seg[id].duration))

C11_Witness ==
    /\ TheSeg.state = "cutting"
    /\ TheSeg.max_len = Seconds(20)
    /\ TheSeg.duration = Some(Seconds(50))
    /\ TheSeg.silence_points = <<180, 186>>
    /\ TheSeg.current_start = 0
    /\ TheSeg.cut_point = 180

\* C12: the candidate cut-point list is in ascending order, so the cut chosen in an
\* iteration is the smallest silence boundary in [current_start + T-5, current_start + T].
C12_CutIsEarliestCandidate ==
    \A id \in JobIds :
        LET g == seg[id] IN
        /\ \A i \in 1..(Len(g.silence_points) - 1) :
              g.silence_points[i] <= g.silence_points[i + 1]
        /\ (g.state = "cutting" /\ Candidates(g) # {}) =>
              \A p \in Candidates(g) : g.cut_point <= p

\* ceil(a / b) for b > 0
CeilDiv(a, b) == (a + b - 1) \div b

\* C13: with no detected silences, duration D > 0 and target length T > 0 the
\* Segmenter produces ceil(D/T) segments; every segment but the last lasts T seconds
\* and the last lasts D - T*(ceil(D/T) - 1).
C13_FixedLengthSegments ==
    \A id \in JobIds :
        LET g == seg[id]
            D == Get(g.duration)
            T == g.max_len
            n == CeilDiv(D, T) IN
        (g.state = "returned" /\ g.silence_points = <<>> /\ D > 0 /\ T > 0) =>
            /\ Len(g.chunks) = n
            /\ g.result = Some(<<PyList(g.chunks), PyList(g.actual_durations)>>)
            /\ g.actual_durations = [i \in 1..n |-> IF i < n THEN T ELSE D - T * (n - 1)]

C13_Witness ==
    /\ TheSeg.state = "returned"
    /\ TheSeg.silence_points = <<>>
    /\ TheSeg.duration = Some(Seconds(42))
    /\ TheSeg.actual_durations = <<Seconds(20), Seconds(20), Seconds(2)>>

\* C14: the Segmenter never returns an empty segment list: a probed duration of 0
\* ends in a 'no segments produced' error and an unobtainable duration in a
\* duration-unavailable error.
C14_NeverReturnsEmpty ==
    \A id \in JobIds :
        seg[id].state = "returned" =>
            /\ IsSome(seg[id].duration)
            /\ Len(seg[id].chunks) >= 1

\* C15: for T >= 5, every segment lasts at most T seconds and every segment other
\* than the last lasts at least T-5 seconds.
C15_DurationsInBand ==
    \A id \in JobIds :
        LET g == seg[id]
            T == g.max_len IN
        (g.state \in {"cutting", "returned"} /\ T >= Seconds(5)) =>
            \A i \in 1..Len(g.actual_durations) :
                /\ g.actual_durations[i] <= T
                /\ i < Len(g.actual_durations) => g.actual_durations[i] >= T - Seconds(5)

C15_Witness ==
    /\ TheSeg.state = "returned"
    /\ TheSeg.max_len = Seconds(20)
    /\ TheSeg.actual_durations = <<180, 200, 120>>

-----------------------------------------------------------------------------
(* Properties of the failure path and of the notification, under Spec *)

\* C16: in every run in which a stage fails, the job's status becomes failed with
\* the error text as message and, if the job has a webhook, a notification with
\* success=false is attempted after the failure is recorded and before the run ends.
C16_FailureRecordedThenNotified ==
    [][\A id \in JobIds :
        LET t == task'[id] IN
        (IsSome(t.failure) /\ t.escaped = None) =>
            /\ jobs'[id].status = "failed"
            /\ jobs'[id].message = t.error
            /\ t.pc \in {"webhook", "done"}
            /\ task[id].failure = None => task[id].hooks = <<>>
            /\ IF TruthyStr(jobs'[id].webhook_url)
               THEN /\ Len(t.hooks) = 1
                    /\ ~t.hooks[1].success
                    /\ t.hooks[1].status = "failed"
                    /\ t.pc = "done" => t.hooks[1].posted # "pending"
               ELSE t.hooks = <<>>]_vars

C16_Witness ==
    \E id \in JobIds :
        /\ task[id].pc = "done"
        /\ task[id].failure = Some("segment")
        /\ task[id].error = Some("ffmpeg chunking failed")
        /\ jobs[id].status = "failed"
        /\ jobs[id].message = Some("ffmpeg chunking failed")
        /\ Len(task[id].hooks) = 1
        /\ ~task[id].hooks[1].success

\* C17: a failure of the webhook delivery leaves the job record (status, progress,
\* message, result) as it was before the notification was attempted and does not
\* propagate out of the run; a completed job is never turned into failed by it.
C17_WebhookFailureIsContained ==
    [][\A id \in JobIds :
        task[id].pc = "webhook" =>
            /\ jobs'[id] = jobs[id]
            /\ task'[id].escaped = None
            /\ task'[id].pc \in {"webhook", "done"}
            /\ jobs[id].status = "completed" => jobs'[id].status # "failed"]_vars

C17_Witness ==
    \E id \in JobIds :
        /\ task[id].pc = "done"
        /\ task[id].escaped = None
        /\ Len(task[id].hooks) = 1
        /\ task[id].hooks[1].posted = "raised"
        /\ jobs[id].status = task[id].hooks[1].status
        /\ jobs[id].message = task[id].error

-----------------------------------------------------------------------------
(* Properties of the registry under threads, under SpecThreads *)

TheWriter == threads["w"]
TheReader == threads["r"]

\* The registry before and after the write of the writing thread, as whole calls
WriteBefore == IF TheWriter.pc \in {"body", "release", "returned"} /\ TheWriter.before # <<>>
               THEN TheWriter.before ELSE jobs
WriteAfter == apply_write(WriteBefore, TheWriter.op, TheWriter.job_id, TheWriter.args)

-----------------------------------------------------------------------------
(* Properties of the Process Runner, under SpecRunner *)

ReadersFinished == runner.reader_out # "reading" /\ runner.reader_err # "reading"

\* C19: when the timeout elapses before the child exits, the runner kills the
\* process, then waits until both readers have finished, and only then reports a
\* timeout failure; it never returns an (exit code, stdout, stderr) result for that
\* invocation; on normal exit it returns only after both readers have finished.
C19_DrainBeforeReport ==
    /\ runner.timed_out =>
          /\ runner.kill_called
          /\ runner.proc # "running"
          /\ runner.pc \in {"await_out", "await_err", "raised"}
          /\ runner.result = None
    /\ (runner.pc = "raised" /\ runner.timed_out) =>
          /\ ReadersFinished
          /\ runner.exc = Some(TimeoutErrorText)
    /\ runner.pc = "await_err" => runner.reader_out # "reading"
    /\ runner.pc = "returned" =>
          /\ ReadersFinished
          /\ ~runner.timed_out
          /\ runner.proc = "exited"
          /\ runner.result = Some(<<Get(runner.returncode), runner.out_lines, runner.err_lines>>)

C19_Witness ==
    /\ runner.pc = "raised"
    /\ runner.timed_out
    /\ runner.proc = "killed"
    /\ runner.reader_out = "done"
    /\ runner.reader_err = "done"
    /\ runner.out_lines = 1
    /\ runner.result = None

-----------------------------------------------------------------------------
(* Properties of the status a poller sees, under Spec *)

StatusRank(status) ==
    IF status = "queued" THEN 0 ELSE IF status = "running" THEN 1 ELSE 2

\* C20: during a run the status a polling client can observe never moves backward
\* in the order queued < running < {completed, failed}; once it is completed or
\* failed it stays what it is, and it never goes from completed to failed.
C20_StatusNeverMovesBackward ==
    [][\A id \in DOMAIN jobs :
        /\ id \in DOMAIN jobs'
        /\ StatusRank(jobs'[id].status) >= StatusRank(jobs[id].status)
        /\ jobs[id].status \in Terminal => jobs'[id].status = jobs[id].status
        /\ get_job(jobs', id).body = Some(JobStatusPayload(jobs'[id]))]_vars

C20_Witness ==
    \E id \in JobIds :
        /\ task[id].pc = "done"
        /\ task[id].failure = Some("segment")
        /\ get_job(jobs, id).status_code = 200
        /\ Get(get_job(jobs, id).body).status = "failed"
        /\ Get(get_job(jobs, id).body).progress = 15

-----------------------------------------------------------------------------
(* Properties of the progress a poller sees, under SpecUpload *)

-----------------------------------------------------------------------------
(* Properties of the access to the registry's dict, under Spec *)

\* C22: every access to the registry's job map, reads as well as writes, happens
\* inside one of the registry's lock-serialized operations; _run_job and
\* _maybe_webhook never read a job record outside the lock.
C22_AllAccessUnderLock ==
    \A id \in JobIds : task[id].unlocked_reads = {}

-----------------------------------------------------------------------------
(* Properties of the Segmenter's loop, under SpecSeg *)

\* C23: for every target length T in the accepted range 5..120, every duration > 0
\* and every list of silences, each iteration of the greedy loop strictly increases
\* current_start (so the loop terminates), and every segment has a strictly
\* positive realized duration.
C23_EveryCutAdvances ==
    \A id \in JobIds :
        LET g == seg[id] IN
        (/\ g.state = "cutting"
         /\ Seconds(5) <= g.max_len /\ g.max_len <= Seconds(120)
         /\ Get(g.duration) > 0) =>
            /\ g.cut_point > g.current_start
            /\ \A i \in 1..Len(g.actual_durations) : g.actual_durations[i] > 0

RECURSIVE SeqSum(_)
SeqSum(q) == IF q = <<>> THEN 0 ELSE q[1] + SeqSum(Tail(q))

Front(q) == SubSeq(q, 1, Len(q) - 1)

\* C24: for T >= 5, duration D > 0 and silence boundaries within [0, D], the
\* segments partition [0, D]: the first starts at 0, each later one starts at the
\* previous cut, the last cut is D, and the realized durations sum to D.
C24_SegmentsPartition ==
    \A id \in JobIds :
        LET g == seg[id]
            D == Get(g.duration) IN
        (/\ g.state \in {"cutting", "returned"}
         /\ g.max_len >= Seconds(5)
         /\ D > 0
         /\ \A i \in 1..Len(g.silence_points) :
               0 <= g.silence_points[i] /\ g.silence_points[i] <= D) =>
            IF g.state = "cutting"
            THEN /\ Len(g.actual_durations) = Len(g.chunks) + 1
                 /\ g.current_start = SeqSum(Front(g.actual_durations))
                 /\ g.cut_point = SeqSum(g.actual_durations)
                 /\ g.cut_point <= D
            ELSE /\ Len(g.actual_durations) = Len(g.chunks)
                 /\ g.current_start = D
                 /\ SeqSum(g.actual_durations) = D

C24_Witness ==
    /\ TheSeg.state = "returned"
    /\ TheSeg.duration = Some(Seconds(42))
    /\ TheSeg.silence_points = <<180, 186>>
    /\ TheSeg.actual_durations = <<180, 200, 40>>
    /\ Len(TheSeg.chunks) = 3

-----------------------------------------------------------------------------
(* Frame properties of the registry, under SpecRegistry *)

ImmutableFields == {"job_id", "source_id", "chunk_seconds", "webhook_url"}
MutableFields == {"status", "progress", "message", "result"}

\* The mutable fields each operation may change
NamedFields(op) ==
    IF op = "set_running" THEN {"status", "message"}
    ELSE IF op = "update_progress" THEN {"progress", "message"}
    ELSE IF op = "complete" THEN {"status", "progress", "result"}
    ELSE IF op = "fail" THEN {"status", "message"}
    ELSE {}

\* C25: each registry write changes only the mutable fields it names, on the job it
\* is addressed to (fail leaves progress as last recorded); no operation changes a
\* job's job_id, source_id, chunk_seconds or webhook_url, changes another job's
\* record or removes a record.
C25_WritesChangeOnlyNamedFields ==
    [][LET c == lastCall' IN
       /\ DOMAIN jobs \subseteq DOMAIN jobs'
       /\ c.op # "create" => DOMAIN jobs' = DOMAIN jobs
       /\ \A id \in DOMAIN jobs :
             /\ \A f \in ImmutableFields : jobs'[id][f] = jobs[id][f]
             /\ jobs'[id].job_id = id
             /\ id # c.job_id => jobs'[id] = jobs[id]
             /\ \A f \in MutableFields \ NamedFields(c.op) : jobs'[id][f] = jobs[id][f]]_vars

C25_Witness ==
    /\ lastCall.op = "fail"
    /\ lastCall.known
    /\ jobs[lastCall.job_id].status = "failed"
    /\ jobs[lastCall.job_id].progress = 50
    /\ \E other \in DOMAIN jobs :
          /\ other # lastCall.job_id
          /\ jobs[other].status = "completed"
          /\ jobs[other].webhook_url # jobs[lastCall.job_id].webhook_url

-----------------------------------------------------------------------------
(* Properties of the end of a run, under Spec *)

\* C26: whenever a run of _run_job for a created job ends, by returning or by an
\* escaping exception, the job's status is completed or failed; no run ends leaving
\* its job queued or running.
C26_RunEndsTerminal ==
    \A id \in JobIds :
        task[id].pc = "done" => id \in DOMAIN jobs /\ jobs[id].status \in Terminal

====
